---------------------------- MODULE Spec2Model ----------------------------
(***************************************************************************)
(* Thermal-AI: the React front end (web-ui/src/App.tsx), its arithmetic    *)
(* helpers (web-ui/src/lib/math.ts, lib/constants) and the solver the      *)
(* front end drives through its wasm binding.                              *)
(*                                                                         *)
(* Two specifications share the module:                                    *)
(*   Spec      the App component as a state machine: UI events, the two    *)
(*             effects, and the solver instance held in solverRef;         *)
(*   SpecMath  the pure functions of lib/math.ts and the click-to-cell     *)
(*             arithmetic of onCanvasClick, applied to enumerated inputs   *)
(*             in IEEE-754 double arithmetic, as JavaScript evaluates      *)
(*             them.                                                       *)
(*                                                                         *)
(* The solver crate is not part of the sources at hand; its operations     *)
(* are modelled from the specification (sections 4 and 7), in exact        *)
(* rational arithmetic for the configuration and in fixed-point            *)
(* arithmetic (FieldUnit units per 1.0, round to nearest) for the field.   *)
(* The field is kept at a reduced resolution: FieldRes cells for every 64   *)
(* grid points of a side.                                                  *)
(***************************************************************************)
EXTENDS Integers, Sequences, FiniteSets, TLC

VARIABLES
    N,          \* useState N            (App.tsx:10)
    alpha,      \* useState alpha        (App.tsx:11), a decimal <<num, den>>
    mu,         \* useState mu           (App.tsx:12)
    wasmReady,  \* useState wasmReady    (App.tsx:25)
    tauRust,    \* useState tauRust      (App.tsx:26), NullTau or a rational
    kUsed,      \* useState kUsed        (App.tsx:27), Null or k
    computeMs,  \* useState computeMs    (App.tsx:28), Null or a duration
    maxVal,     \* useState maxVal       (App.tsx:30), in field units
    solverRef,  \* solverRef.current     (App.tsx:19): 0 = null, else instance id
    solver,     \* the state of the instance solverRef points at
    pending,    \* effects scheduled by the last commit, in declaration order
    mounted,    \* FALSE once an effect has thrown and React dropped the tree
    lastEvent,  \* history: the last UI event handled
    prevEvent,  \* history: the UI event handled before it
    lastStep,   \* history: result of the last Step since the last Reset
    lastError,  \* history: the last error a solver call raised
    events,     \* history: how many UI events have been handled
    calc        \* SpecMath: the function application under evaluation

vars == <<N, alpha, mu, wasmReady, tauRust, kUsed, computeMs, maxVal,
          solverRef, solver, pending, mounted, lastEvent, prevEvent,
          lastStep, lastError, events, calc>>

uiVars == <<N, alpha, mu, wasmReady, tauRust, kUsed, computeMs, maxVal,
            solverRef, solver, pending, mounted, lastEvent, prevEvent,
            lastStep, lastError, events>>

-----------------------------------------------------------------------------
(* Bounds of the exploration *)

MaxEvents == 4
MaxComputeMs == 1
FieldRes == 2
FieldUnit == 10000

-----------------------------------------------------------------------------
(* Program constants *)

GRID_SIZES == {64, 128}
MU_SET == {2, 5, 10, 20}
S_RUN == <<8, 10>>
S_REF == <<4, 10>>
VIEW_PX == 384
CanvasBorder == 1

Null == 0 - 1
NullTau == <<>>

-----------------------------------------------------------------------------
(* Exact rationals <<num, den>>, den > 0, in lowest terms.  A zero          *)
(* denominator stands for the non-finite results of a division by zero:    *)
(* <<1,0>> = +Infinity, <<-1,0>> = -Infinity, <<0,0>> = NaN.               *)

Abs(x) == IF x < 0 THEN 0 - x ELSE x

RECURSIVE GCD(_, _)
GCD(a, b) == IF b = 0 THEN a ELSE GCD(b, a % b)

Rat(n, d) ==
    LET g == GCD(Abs(n), Abs(d))
        sg == IF d < 0 THEN 0 - 1 ELSE 1
    IN  IF g = 0 THEN <<0, 0>> ELSE <<sg * (n \div g), sg * (d \div g)>>

RInt(n) == <<n, 1>>
RFinite(x) == x[2] > 0
RPos(x) == x[2] > 0 /\ x[1] > 0

RMul(x, y) ==
    IF x[2] = 0 \/ y[2] = 0
    THEN (IF x[1] * y[1] > 0 THEN <<1, 0>>
          ELSE IF x[1] * y[1] < 0 THEN <<0 - 1, 0>> ELSE <<0, 0>>)
    ELSE LET g1 == GCD(Abs(x[1]), y[2])
             g2 == GCD(Abs(y[1]), x[2])
         IN  <<(x[1] \div g1) * (y[1] \div g2), (x[2] \div g2) * (y[2] \div g1)>>

RInv(x) ==
    IF x[1] > 0 THEN <<x[2], x[1]>>
    ELSE IF x[1] < 0 THEN <<0 - x[2], 0 - x[1]>>
    ELSE IF x[2] > 0 THEN <<1, 0>> ELSE <<0, 0>>

RDiv(x, y) ==
    IF y[1] = 0 /\ y[2] > 0
    THEN (IF x[1] > 0 THEN <<1, 0>> ELSE IF x[1] < 0 THEN <<0 - 1, 0>> ELSE <<0, 0>>)
    ELSE RMul(x, RInv(y))

\* x <= y for finite x and finite positive y
RLe(x, y) == LET q == RDiv(x, y) IN q[1] <= q[2]

RCeil(x) == (x[1] + x[2] - 1) \div x[2]
RFloor(x) == x[1] \div x[2]

Max2(a, b) == IF a >= b THEN a ELSE b
Min2(a, b) == IF a <= b THEN a ELSE b

-----------------------------------------------------------------------------
(* Natural numbers of any size: little-endian sequences of limbs in         *)
(* 0 .. LimbBase - 1 with no leading zero limb; <<>> is zero.               *)

LimbBits == 15
LimbBase == 2 ^ LimbBits

RECURSIVE BNorm(_)
BNorm(x) ==
    IF x = <<>> THEN x
    ELSE IF x[Len(x)] = 0 THEN BNorm(SubSeq(x, 1, Len(x) - 1)) ELSE x

RECURSIVE BNat(_)
BNat(n) == IF n = 0 THEN <<>> ELSE <<n % LimbBase>> \o BNat(n \div LimbBase)

RECURSIVE BToNat(_)
BToNat(x) == IF x = <<>> THEN 0 ELSE x[1] + LimbBase * BToNat(Tail(x))

RECURSIVE BitLen(_)
BitLen(n) == IF n = 0 THEN 0 ELSE 1 + BitLen(n \div 2)

BBits(x) == IF x = <<>> THEN 0 ELSE LimbBits * (Len(x) - 1) + BitLen(x[Len(x)])

BBit(x, i) ==
    IF i \div LimbBits + 1 > Len(x) THEN 0
    ELSE (x[i \div LimbBits + 1] \div (2 ^ (i % LimbBits))) % 2

RECURSIVE BCmpFrom(_, _, _)
BCmpFrom(x, y, i) ==
    IF i = 0 THEN 0
    ELSE IF x[i] < y[i] THEN 0 - 1
    ELSE IF x[i] > y[i] THEN 1
    ELSE BCmpFrom(x, y, i - 1)

\* -1, 0 or 1 as x < y, x = y or x > y
BCmp(x, y) ==
    IF Len(x) < Len(y) THEN 0 - 1
    ELSE IF Len(x) > Len(y) THEN 1
    ELSE BCmpFrom(x, y, Len(x))

RECURSIVE BAddFrom(_, _, _, _)
BAddFrom(x, y, i, c) ==
    IF i > Len(x) /\ i > Len(y) THEN (IF c = 0 THEN <<>> ELSE <<c>>)
    ELSE LET s == (IF i <= Len(x) THEN x[i] ELSE 0)
                + (IF i <= Len(y) THEN y[i] ELSE 0) + c
         IN  <<s % LimbBase>> \o BAddFrom(x, y, i + 1, s \div LimbBase)

BAdd(x, y) == BAddFrom(x, y, 1, 0)

RECURSIVE BSubFrom(_, _, _, _)
BSubFrom(x, y, i, b) ==
    IF i > Len(x) THEN <<>>
    ELSE LET d == LimbBase + x[i] - (IF i <= Len(y) THEN y[i] ELSE 0) - b
         IN  <<d % LimbBase>> \o BSubFrom(x, y, i + 1, IF d < LimbBase THEN 1 ELSE 0)

\* x - y for x >= y
BSub(x, y) == BNorm(BSubFrom(x, y, 1, 0))

RECURSIVE BMulSmallFrom(_, _, _, _)
BMulSmallFrom(x, d, i, c) ==
    IF i > Len(x) THEN (IF c = 0 THEN <<>> ELSE <<c>>)
    ELSE LET p == x[i] * d + c
         IN  <<p % LimbBase>> \o BMulSmallFrom(x, d, i + 1, p \div LimbBase)

\* x * d for one limb d
BMulSmall(x, d) == IF d = 0 THEN <<>> ELSE BMulSmallFrom(x, d, 1, 0)

RECURSIVE BMulFrom(_, _, _)
BMulFrom(x, y, j) ==
    IF j > Len(y) THEN <<>>
    ELSE BAdd(BMulSmall(x, y[j]), <<0>> \o BMulFrom(x, y, j + 1))

BMul(x, y) == BNorm(BMulFrom(x, y, 1))

\* x * 2^k
BShl(x, k) ==
    IF x = <<>> THEN x
    ELSE BMulSmall([i \in 1 .. (k \div LimbBits) |-> 0] \o x, 2 ^ (k % LimbBits))

\* floor(x / 2^k)
BShr(x, k) ==
    LET q == k \div LimbBits
        r == k % LimbBits
        y == IF q >= Len(x) THEN <<>> ELSE SubSeq(x, q + 1, Len(x))
    IN  BNorm([i \in 1 .. Len(y) |->
                 (y[i] \div (2 ^ r))
                 + (IF i < Len(y) THEN (y[i + 1] % (2 ^ r)) * (2 ^ (LimbBits - r)) ELSE 0)])

\* whether the k low bits of x are all zero
BLowZero(x, k) == BShl(BShr(x, k), k) = x

BOdd(x) == x # <<>> /\ x[1] % 2 = 1

\* long division, one bit of a at a time from bit hi down to bit lo (the
\* upper half of the bits, then the lower): [q, r] with a = q * d + r and
\* r < d, given the part above bit hi as (q, r)
RECURSIVE BDivFrom(_, _, _, _, _, _)
BDivFrom(a, d, hi, lo, q, r) ==
    IF hi < lo THEN [q |-> q, r |-> r]
    ELSE IF hi = lo
    THEN LET r2 == BAdd(BShl(r, 1), BNat(BBit(a, hi)))
             ge == BCmp(r2, d) >= 0
         IN  [q |-> BAdd(BShl(q, 1), IF ge THEN <<1>> ELSE <<>>),
              r |-> IF ge THEN BSub(r2, d) ELSE r2]
    ELSE LET mid == (hi + lo + 1) \div 2
             up == BDivFrom(a, d, hi, mid, q, r)
         IN  \* the lengths are asked for so that the upper half is computed here
             IF Len(up.q) + Len(up.r) >= 0
             THEN BDivFrom(a, d, mid - 1, lo, up.q, up.r) ELSE up

\* floor division of a by d > 0
BDivMod(a, d) ==
    LET top == Max2(BBits(a) - (BBits(d) - 1), 0)
    IN  BDivFrom(a, d, top - 1, 0, <<>>, BShr(a, top))

-----------------------------------------------------------------------------
(* IEEE-754 binary64 values as JavaScript numbers hold them: a finite       *)
(* non-negative number is [m, e] with value m * 2^e and m either zero or    *)
(* exactly MantBits bits long; results are rounded to nearest, ties to      *)
(* even.  The exponent is not bounded: no value here nears the range's      *)
(* ends.  A division by zero gives DInf (or DNaN for 0/0).                  *)

MantBits == 53

DZero == [m |-> <<>>, e |-> 0, kind |-> "fin"]
DInf == [m |-> <<>>, e |-> 0, kind |-> "inf"]
DNaN == [m |-> <<>>, e |-> 0, kind |-> "nan"]

\* the double nearest x * 2^e, where sticky says a non-zero part below x's
\* last bit was cut off (x then holds more than MantBits + 1 bits)
DRound(x, e, sticky) ==
    LET n == BBits(x)
    IN  IF n = 0 THEN DZero
        ELSE IF n <= MantBits
        THEN [m |-> BShl(x, MantBits - n), e |-> e - (MantBits - n), kind |-> "fin"]
        ELSE LET sh == n - MantBits
                 m0 == BShr(x, sh)
                 guard == BBit(x, sh - 1) = 1
                 rest == sticky \/ ~BLowZero(x, sh - 1)
                 m1 == IF guard /\ (rest \/ BOdd(m0)) THEN BAdd(m0, <<1>>) ELSE m0
             IN  IF BBits(m1) > MantBits
                 THEN [m |-> BShr(m1, 1), e |-> e + sh + 1, kind |-> "fin"]
                 ELSE [m |-> m1, e |-> e + sh, kind |-> "fin"]

\* the double of a natural number below 2^31 (exact)
DNat(n) == DRound(BNat(n), 0, FALSE)

DMul(x, y) ==
    IF x.kind # "fin" \/ y.kind # "fin"
    THEN (IF x.kind = "nan" \/ y.kind = "nan" \/ x = DZero \/ y = DZero THEN DNaN ELSE DInf)
    ELSE DRound(BMul(x.m, y.m), x.e + y.e, FALSE)

DDiv(x, y) ==
    IF x.kind # "fin" \/ y.kind # "fin"
    THEN (IF x.kind = "inf" /\ y.kind = "fin" THEN DInf
          ELSE IF x.kind = "fin" /\ y.kind = "inf" THEN DZero ELSE DNaN)
    ELSE IF y.m = <<>> THEN (IF x.m = <<>> THEN DNaN ELSE DInf)
    ELSE IF x.m = <<>> THEN DZero
    ELSE LET qr == BDivMod(BShl(x.m, MantBits + 3), y.m)
         IN  DRound(qr.q, x.e - (MantBits + 3) - y.e, qr.r # <<>>)

\* the double a decimal literal or input string num/den denotes
DDec(d) == DDiv(DNat(d[1]), DNat(d[2]))

\* x < y for finite doubles
DLess(x, y) ==
    IF y.m = <<>> THEN FALSE
    ELSE IF x.m = <<>> THEN TRUE
    ELSE IF x.e # y.e THEN x.e < y.e
    ELSE BCmp(x.m, y.m) < 0

\* Math.floor and Math.ceil of a finite double below 2^31, as integers
DFloor(x) == IF x.m = <<>> THEN 0 ELSE IF x.e >= 0 THEN BToNat(BShl(x.m, x.e)) ELSE BToNat(BShr(x.m, 0 - x.e))

DIsInt(x) == x.m = <<>> \/ x.e >= 0 \/ BLowZero(x.m, 0 - x.e)

DCeil(x) == IF DIsInt(x) THEN DFloor(x) ELSE DFloor(x) + 1

\* the next double below a positive x
DPred(x) ==
    IF BBits(BSub(x.m, <<1>>)) < MantBits
    THEN [m |-> BSub(BShl(x.m, 1), <<1>>), e |-> x.e - 1, kind |-> "fin"]
    ELSE [m |-> BSub(x.m, <<1>>), e |-> x.e, kind |-> "fin"]

\* distance of two positive doubles in units of the last place of the smaller
DUlps(x, y) ==
    LET lo == IF DLess(x, y) THEN x ELSE y
        hi == IF DLess(x, y) THEN y ELSE x
    IN  BSub(BShl(hi.m, hi.e - lo.e), lo.m)

-----------------------------------------------------------------------------
(* web-ui/src/lib/math.ts, on doubles *)

dxFromNNoMinusOne(n) == DDiv(DNat(1), DNat(n))

dxFromN(n) == DDiv(DNat(1), DNat(n - 1))

tauFromMu(m, a, dx) == DDiv(DMul(DMul(m, dx), dx), a)

expectedKTimesMargin(m, s) == DCeil(DMul(DMul(DNat(4), m), s))

expectedKNoStencilFactor(m, s) == DCeil(DDiv(m, s))

expectedK(m, s) == DCeil(DDiv(DMul(DNat(4), m), s))

\* README "k = ceil(tau / (s * dt_max))" with dt_max = dx^2 / (4 * alpha),
\* evaluated on doubles from tauFromMu's result
derivedK(tau, a, s, dx) ==
    DCeil(DDiv(tau, DMul(s, DDiv(DMul(dx, dx), DMul(DNat(4), a)))))

-----------------------------------------------------------------------------
(* The solver behind the wasm binding (specification sections 3, 4, 7).     *)
(* A fallible call returns [ok, s, err]: on failure the instance is left    *)
(* as it was and the binding raises the error to its JavaScript caller.     *)

\* the field is kept at FieldRes cells for every 64 grid points of a side
FieldDim(n) == (FieldRes * n) \div 64
Cells(n) == (0 .. FieldDim(n) - 1) \X (0 .. FieldDim(n) - 1)
CellOf(x, y, n) == <<(x * FieldDim(n)) \div n, (y * FieldDim(n)) \div n>>
ZeroField(n) == [c \in Cells(n) |-> 0]

NewSolver(n) ==
    [n |-> n, alpha |-> RInt(1), mu |-> RInt(1), s |-> RInt(1), field |-> ZeroField(n)]

NoSolver == [n |-> 0, alpha |-> RInt(1), mu |-> RInt(1), s |-> RInt(1), field |-> <<>>]

Ok(s) == [ok |-> TRUE, s |-> s, err |-> "none"]
Err(s, e) == [ok |-> FALSE, s |-> s, err |-> e]

set_alpha(s, a) ==
    IF RPos(a) THEN Ok([s EXCEPT !.alpha = a]) ELSE Err(s, "InvalidConfig")

set_mu(s, m) ==
    IF RPos(m) THEN Ok([s EXCEPT !.mu = m]) ELSE Err(s, "InvalidConfig")

set_s_run(s, margin) ==
    IF RPos(margin) /\ RLe(margin, RInt(1))
    THEN Ok([s EXCEPT !.s = margin]) ELSE Err(s, "InvalidConfig")

add_hotspot(s, x, y, amplitude) ==
    IF x >= 0 /\ x < s.n /\ y >= 0 /\ y < s.n
    THEN Ok([s EXCEPT !.field[CellOf(x, y, s.n)] = @ + amplitude * FieldUnit])
    ELSE Err(s, "OutOfBounds")

clear(s) == [s EXCEPT !.field = ZeroField(s.n)]

gridDx(n) == Rat(1, n - 1)

derivedTau(a, m, dx) == RDiv(RMul(m, RMul(dx, dx)), a)

dtMax(a, dx) == RDiv(RMul(dx, dx), RMul(RInt(4), a))

stableSubstepCountDtIsTau(a, m, margin, dx) == 1

stableSubstepCount(a, m, margin, dx) ==
    Max2(1, RCeil(RDiv(derivedTau(a, m, dx), RMul(margin, dtMax(a, dx)))))

get_tau(s) == derivedTau(s.alpha, s.mu, gridDx(s.n))

\* index of the neighbour at i + d, reflected back into the grid at an edge
Reflect(i, dim) ==
    IF i < 0 THEN Min2(0 - i, dim - 1)
    ELSE IF i > dim - 1 THEN Max2(2 * (dim - 1) - i, 0)
    ELSE i

RoundDiv(a, b) == (2 * a + b) \div (2 * b)

\* one explicit five-point update with coefficient r = alpha * dt / dx^2
applyStep(fieldIn, r, dim) ==
    [c \in DOMAIN fieldIn |->
        LET u == fieldIn[c]
            lap == fieldIn[<<Reflect(c[1] - 1, dim), c[2]>>]
                 + fieldIn[<<Reflect(c[1] + 1, dim), c[2]>>]
                 + fieldIn[<<c[1], Reflect(c[2] - 1, dim)>>]
                 + fieldIn[<<c[1], Reflect(c[2] + 1, dim)>>]
                 - 4 * u
        IN  u + RoundDiv(r[1] * lap, r[2])]

\* k >= 1 updates in order, the first half before the second; fixed says
\* the last update changed nothing, and then no later one does
RECURSIVE substepsInOrder(_, _, _, _)
substepsInOrder(f, r, dim, k) ==
    IF k = 1
    THEN LET g == applyStep(f, r, dim) IN [f |-> g, fixed |-> g = f]
    ELSE LET h == substepsInOrder(f, r, dim, k \div 2)
         IN  IF h.fixed THEN h ELSE substepsInOrder(h.f, r, dim, k - k \div 2)

runSubsteps(f, r, dim, k) == IF k = 0 THEN f ELSE substepsInOrder(f, r, dim, k).f

step_tau(s) ==
    LET dx == gridDx(s.n)
        tau == derivedTau(s.alpha, s.mu, dx)
        k == stableSubstepCount(s.alpha, s.mu, s.s, dx)
        dt == RDiv(tau, RInt(k))
        r == RDiv(RMul(s.alpha, dt), RMul(dx, dx))
    IN  [s |-> [s EXCEPT !.field = runSubsteps(s.field, r, FieldDim(s.n), k)],
         tau |-> tau, k |-> k]

\* the largest field value, or 0 if none is positive
FieldMax(f) ==
    LET S == {f[c] : c \in DOMAIN f} \cup {0}
    IN  CHOOSE m \in S : \A v \in S : v <= m

-----------------------------------------------------------------------------
(* The App component (web-ui/src/App.tsx) *)

\* values the alpha number input can deliver: "" or "0" (0), and decimals
AlphaInputs == {<<0, 1>>, <<5, 100>>, <<20, 100>>}

\* the canvas's bounding rectangle: its VIEW_PX pixels and the border
RectSize == VIEW_PX + 2 * CanvasBorder

\* positions of a click, from the rectangle's corner
ClickPoints == {<<0, 0>>, <<200, 100>>, <<RectSize - 1, RectSize - 1>>}

\* Math.floor((px / rect.width) * n) (App.tsx:186-187), px and size doubles
ClickCellCeil(px, size, n) == DCeil(DMul(DDiv(px, size), DNat(n)))

ClickCell(px, size, n) == DFloor(DMul(DDiv(px, size), DNat(n)))

\* Math.floor(N / 2) (App.tsx:50, App.tsx:168)
CentreCell(n) == DFloor(DDiv(DNat(n), DNat(2)))

\* the two functions on the arguments the component passes, computed once
ClickTable ==
    [n \in GRID_SIZES |->
        [p \in {q[1] : q \in ClickPoints} \cup {q[2] : q \in ClickPoints} |->
            ClickCell(DNat(p), DNat(RectSize), n)]]

CentreTable == [n \in GRID_SIZES |-> CentreCell(n)]

IdleCalc ==
    [op |-> "idle", done |-> FALSE, n |-> 0, a |-> <<0, 1>>, mu |-> 0, s |-> <<0, 1>>,
     size |-> 0, px |-> 0, py |-> 0, edge |-> FALSE,
     tau |-> DZero, k |-> 0, kLong |-> 0, x |-> 0, y |-> 0, ok |-> FALSE, changed |-> 0]
NoStep == [id |-> 0, k |-> Null, ms |-> Null]

\* the dependency arrays of the two effects (App.tsx:56 and App.tsx:64)
SolverEffectDepsWithConfig(ready, n, a, m) == <<ready, n, a, m>>

SolverEffectDeps(ready, n, a, m) == <<ready, n>>

ConfigEffectDeps(ready, n, a, m) == <<a, m>>

\* the effects React schedules when a commit changes (ready, n, a, m)
Scheduled(ready0, n0, a0, m0, ready1, n1, a1, m1) ==
    (IF SolverEffectDeps(ready0, n0, a0, m0) # SolverEffectDeps(ready1, n1, a1, m1)
     THEN <<"solver">> ELSE <<>>)
    \o
    (IF ConfigEffectDeps(ready0, n0, a0, m0) # ConfigEffectDeps(ready1, n1, a1, m1)
     THEN <<"config">> ELSE <<>>)

drawHeatmap(s) == FieldMax(s.field)

InitUI ==
    /\ N = 64
    /\ alpha = <<20, 100>>
    /\ mu = 10
    /\ wasmReady = FALSE
    /\ tauRust = NullTau
    /\ kUsed = Null
    /\ computeMs = Null
    /\ maxVal = 0
    /\ solverRef = 0
    /\ solver = NoSolver
    /\ pending = <<>>
    /\ mounted = TRUE
    /\ lastEvent = "mount"
    /\ prevEvent = "mount"
    /\ lastStep = NoStep
    /\ lastError = "none"
    /\ events = 0

Idle == mounted /\ pending = <<>>

\* init() resolves and setWasmReady(true) commits (App.tsx:34-39)
WasmInitDone ==
    /\ Idle /\ ~wasmReady
    /\ wasmReady' = TRUE
    /\ pending' = Scheduled(wasmReady, N, alpha, mu, TRUE, N, alpha, mu)
    /\ lastEvent' = "wasmReady"
    /\ prevEvent' = lastEvent
    /\ UNCHANGED <<N, alpha, mu, tauRust, kUsed, computeMs, maxVal, solverRef,
                   solver, mounted, lastStep, lastError, events, calc>>

\* the grid-size select (App.tsx:200)
SelectN(g) ==
    /\ Idle /\ g # N /\ events < MaxEvents
    /\ N' = g
    /\ pending' = Scheduled(wasmReady, N, alpha, mu, wasmReady, g, alpha, mu)
    /\ lastEvent' = "N"
    /\ prevEvent' = lastEvent
    /\ events' = events + 1
    /\ UNCHANGED <<alpha, mu, wasmReady, tauRust, kUsed, computeMs, maxVal,
                   solverRef, solver, mounted, lastStep, lastError, calc>>

\* the alpha number input (App.tsx:209-217)
InputAlpha(a) ==
    /\ Idle /\ a # alpha /\ events < MaxEvents
    /\ alpha' = a
    /\ pending' = Scheduled(wasmReady, N, alpha, mu, wasmReady, N, a, mu)
    /\ lastEvent' = "alpha"
    /\ prevEvent' = lastEvent
    /\ events' = events + 1
    /\ UNCHANGED <<N, mu, wasmReady, tauRust, kUsed, computeMs, maxVal,
                   solverRef, solver, mounted, lastStep, lastError, calc>>

\* the mu select (App.tsx:220)
SelectMu(m) ==
    /\ Idle /\ m # mu /\ events < MaxEvents
    /\ mu' = m
    /\ pending' = Scheduled(wasmReady, N, alpha, mu, wasmReady, N, alpha, m)
    /\ lastEvent' = "mu"
    /\ prevEvent' = lastEvent
    /\ events' = events + 1
    /\ UNCHANGED <<N, alpha, wasmReady, tauRust, kUsed, computeMs, maxVal,
                   solverRef, solver, mounted, lastStep, lastError, calc>>

\* what the body of the [wasmReady, N] effect builds (App.tsx:44-50)
BuildSolver(n, a, m) ==
    LET r1 == set_s_run(NewSolver(n), S_RUN)
        r2 == IF r1.ok THEN set_alpha(r1.s, a) ELSE r1
        r3 == IF r2.ok THEN set_mu(r2.s, RInt(m)) ELSE r2
    IN  IF r3.ok THEN add_hotspot(r3.s, CentreTable[n], CentreTable[n], 1) ELSE r3

\* useEffect(..., [wasmReady, N]) (App.tsx:41-56)
SolverEffect ==
    /\ mounted /\ pending # <<>> /\ Head(pending) = "solver"
    /\ IF ~wasmReady
       THEN /\ pending' = Tail(pending)
            /\ UNCHANGED <<solverRef, solver, tauRust, maxVal, mounted, lastError>>
       ELSE LET built == BuildSolver(N, alpha, mu)
            IN  IF built.ok
                THEN /\ solverRef' = solverRef + 1
                     /\ solver' = built.s
                     /\ tauRust' = get_tau(built.s)
                     /\ maxVal' = drawHeatmap(built.s)
                     /\ pending' = Tail(pending)
                     /\ UNCHANGED <<mounted, lastError>>
                ELSE /\ mounted' = FALSE
                     /\ pending' = <<>>
                     /\ lastError' = built.err
                     /\ UNCHANGED <<solverRef, solver, tauRust, maxVal>>
    /\ UNCHANGED <<N, alpha, mu, wasmReady, kUsed, computeMs, lastEvent,
                   prevEvent, lastStep, events, calc>>

\* useEffect(..., [alpha, mu]) (App.tsx:58-64)
ConfigEffect ==
    /\ mounted /\ pending # <<>> /\ Head(pending) = "config"
    /\ IF solverRef = 0
       THEN /\ pending' = Tail(pending)
            /\ UNCHANGED <<solver, tauRust, mounted, lastError>>
       ELSE LET r1 == set_alpha(solver, alpha)
                r2 == IF r1.ok THEN set_mu(r1.s, RInt(mu)) ELSE r1
            IN  IF r2.ok
                THEN /\ solver' = r2.s
                     /\ tauRust' = get_tau(r2.s)
                     /\ pending' = Tail(pending)
                     /\ UNCHANGED <<mounted, lastError>>
                ELSE /\ solver' = r2.s
                     /\ mounted' = FALSE
                     /\ pending' = <<>>
                     /\ lastError' = r2.err
                     /\ UNCHANGED tauRust
    /\ UNCHANGED <<N, alpha, mu, wasmReady, kUsed, computeMs, maxVal, solverRef,
                   lastEvent, prevEvent, lastStep, events, calc>>

\* the Step button (App.tsx:151-161, enabled by App.tsx:230)
stepOnce ==
    /\ Idle /\ wasmReady /\ events < MaxEvents
    /\ lastEvent' = "step"
    /\ prevEvent' = lastEvent
    /\ events' = events + 1
    /\ IF solverRef = 0
       THEN UNCHANGED <<solver, kUsed, computeMs, tauRust, maxVal, lastStep>>
       ELSE LET info == step_tau(solver)
            IN  /\ solver' = info.s
                /\ kUsed' = info.k
                /\ tauRust' = info.tau
                /\ maxVal' = drawHeatmap(info.s)
                /\ \E ms \in 0 .. MaxComputeMs :
                      /\ computeMs' = ms
                      /\ lastStep' = [id |-> solverRef, k |-> info.k, ms |-> ms]
    /\ UNCHANGED <<N, alpha, mu, wasmReady, solverRef, pending, mounted,
                   lastError, calc>>

\* the Reset button (App.tsx:163-174, enabled by App.tsx:233)
resetFieldNoClear ==
    /\ Idle /\ wasmReady /\ events < MaxEvents
    /\ lastEvent' = "reset"
    /\ prevEvent' = lastEvent
    /\ events' = events + 1
    /\ IF solverRef = 0
       THEN UNCHANGED <<solver, kUsed, computeMs, tauRust, maxVal, lastStep, lastError>>
       ELSE LET seeded == add_hotspot(solver, CentreTable[N], CentreTable[N], 1)
            IN  IF seeded.ok
                THEN /\ solver' = seeded.s
                     /\ tauRust' = get_tau(seeded.s)
                     /\ kUsed' = Null
                     /\ computeMs' = Null
                     /\ maxVal' = drawHeatmap(seeded.s)
                     /\ lastStep' = NoStep
                     /\ UNCHANGED lastError
                ELSE /\ solver' = seeded.s
                     /\ lastError' = seeded.err
                     /\ UNCHANGED <<kUsed, computeMs, tauRust, maxVal, lastStep>>
    /\ UNCHANGED <<N, alpha, mu, wasmReady, solverRef, pending, mounted, calc>>

resetField ==
    /\ Idle /\ wasmReady /\ events < MaxEvents
    /\ lastEvent' = "reset"
    /\ prevEvent' = lastEvent
    /\ events' = events + 1
    /\ IF solverRef = 0
       THEN UNCHANGED <<solver, kUsed, computeMs, tauRust, maxVal, lastStep, lastError>>
       ELSE LET seeded == add_hotspot(clear(solver), CentreTable[N], CentreTable[N], 1)
            IN  IF seeded.ok
                THEN /\ solver' = seeded.s
                     /\ tauRust' = get_tau(seeded.s)
                     /\ kUsed' = Null
                     /\ computeMs' = Null
                     /\ maxVal' = drawHeatmap(seeded.s)
                     /\ lastStep' = NoStep
                     /\ UNCHANGED lastError
                ELSE /\ solver' = seeded.s
                     /\ lastError' = seeded.err
                     /\ UNCHANGED <<kUsed, computeMs, tauRust, maxVal, lastStep>>
    /\ UNCHANGED <<N, alpha, mu, wasmReady, solverRef, pending, mounted, calc>>

\* a click on the canvas at (px, py) from the rectangle's corner (App.tsx:176-191)
onCanvasClick(px, py) ==
    /\ Idle /\ events < MaxEvents
    /\ lastEvent' = "click"
    /\ prevEvent' = lastEvent
    /\ events' = events + 1
    /\ IF solverRef = 0
       THEN UNCHANGED <<solver, maxVal, lastError>>
       ELSE LET x == ClickTable[solver.n][px]
                y == ClickTable[solver.n][py]
                hit == add_hotspot(solver, x, y, 1)
            IN  IF hit.ok
                THEN /\ solver' = hit.s
                     /\ maxVal' = drawHeatmap(hit.s)
                     /\ UNCHANGED lastError
                ELSE /\ lastError' = hit.err
                     /\ UNCHANGED <<solver, maxVal>>
    /\ UNCHANGED <<N, alpha, mu, wasmReady, tauRust, kUsed, computeMs, solverRef,
                   pending, mounted, lastStep, calc>>

Init == InitUI /\ calc = IdleCalc

Next ==
    \/ WasmInitDone
    \/ \E g \in GRID_SIZES : SelectN(g)
    \/ \E a \in AlphaInputs : InputAlpha(a)
    \/ \E m \in MU_SET : SelectMu(m)
    \/ SolverEffect
    \/ ConfigEffect
    \/ stepOnce
    \/ resetField
    \/ \E p \in ClickPoints : onCanvasClick(p[1], p[2])

Spec == Init /\ [][Next]_vars

-----------------------------------------------------------------------------
(* SpecMath: the functions applied to enumerated arguments.  calc holds     *)
(* one application: its arguments and, once done, its results.              *)

MaxUlps == 2
ALPHA_TRAIN_MIN == <<5, 100>>
ALPHA_TRAIN_MAX == <<50, 100>>

\* the decimals from the alpha input's min to its max, in its steps of 0.01
MathAlphas == {<<a, 100>> : a \in ALPHA_TRAIN_MIN[1] .. ALPHA_TRAIN_MAX[1]}

RectSizes == {VIEW_PX, VIEW_PX + 2 * CanvasBorder}

\* click offsets: every whole pixel, and (edge) the last double below the size
PxSamples(size) == 0 .. size - 1

TauArgs ==
    {[IdleCalc EXCEPT !.op = "tau", !.n = n, !.a = a, !.mu = m] :
        n \in GRID_SIZES, a \in MathAlphas, m \in MU_SET}

\* expectedK's arguments: the mu of MU_SET, and mu = 0, which the function
\* accepts although the mu select never delivers it
KArgs ==
    {[IdleCalc EXCEPT !.op = "k", !.mu = m, !.s = s] :
        m \in {0} \cup MU_SET, s \in {S_RUN, S_REF}}

DeriveArgs ==
    {[IdleCalc EXCEPT !.op = "derive", !.n = n, !.a = a, !.mu = m, !.s = s] :
        n \in GRID_SIZES, a \in MathAlphas, m \in MU_SET, s \in {S_RUN, S_REF}}

ClickArgs ==
    UNION {{[IdleCalc EXCEPT !.op = "click", !.n = n, !.size = size,
                             !.px = p, !.py = size - 1 - p, !.edge = FALSE] :
               n \in GRID_SIZES, p \in PxSamples(size)}
           \cup
           {[IdleCalc EXCEPT !.op = "click", !.n = n, !.size = size,
                             !.px = size, !.py = size, !.edge = TRUE] :
               n \in GRID_SIZES}
           : size \in RectSizes}

CentreArgs == {[IdleCalc EXCEPT !.op = "centre", !.n = n] : n \in GRID_SIZES}

\* how many cells of a field differ from zero
Seeded(f) == Cardinality({c \in DOMAIN f : f[c] # 0})

\* dx and tauJs of the component (App.tsx:14-15)
CalcTau ==
    /\ calc.op = "tau" /\ ~calc.done
    /\ calc' = [calc EXCEPT !.done = TRUE,
                            !.tau = tauFromMu(DNat(calc.mu), DDec(calc.a), dxFromN(calc.n))]
    /\ UNCHANGED uiVars

\* kRunExp and kRefExp of the component (App.tsx:16-17)
CalcExpectedK ==
    /\ calc.op = "k" /\ ~calc.done
    /\ calc' = [calc EXCEPT !.done = TRUE, !.k = expectedK(DNat(calc.mu), DDec(calc.s))]
    /\ UNCHANGED uiVars

\* the README's long form of k next to expectedK
CalcDerivedK ==
    /\ calc.op = "derive" /\ ~calc.done
    /\ LET dx == dxFromN(calc.n)
           a == DDec(calc.a)
           s == DDec(calc.s)
           tau == tauFromMu(DNat(calc.mu), a, dx)
       IN  calc' = [calc EXCEPT !.done = TRUE, !.tau = tau,
                                !.k = expectedK(DNat(calc.mu), s),
                                !.kLong = derivedK(tau, a, s, dx)]
    /\ UNCHANGED uiVars

\* the cell onCanvasClick seeds, on a fresh solver of size n (App.tsx:181-189)
CalcClick ==
    /\ calc.op = "click" /\ ~calc.done
    /\ LET size == DNat(calc.size)
           px == IF calc.edge THEN DPred(size) ELSE DNat(calc.px)
           py == IF calc.edge THEN DPred(size) ELSE DNat(calc.py)
           x == ClickCell(px, size, calc.n)
           y == ClickCell(py, size, calc.n)
           hit == add_hotspot(NewSolver(calc.n), x, y, 1)
       IN  calc' = [calc EXCEPT !.done = TRUE, !.x = x, !.y = y, !.ok = hit.ok,
                                !.changed = Seeded(hit.s.field)]
    /\ UNCHANGED uiVars

\* the centre seed of the [wasmReady, N] effect and of Reset (App.tsx:50, 168)
CalcCentre ==
    /\ calc.op = "centre" /\ ~calc.done
    /\ LET x == CentreCell(calc.n)
           hit == add_hotspot(NewSolver(calc.n), x, x, 1)
       IN  calc' = [calc EXCEPT !.done = TRUE, !.x = x, !.y = x, !.ok = hit.ok,
                                !.changed = Seeded(hit.s.field)]
    /\ UNCHANGED uiVars

InitMath ==
    /\ InitUI
    /\ calc \in TauArgs \cup KArgs \cup DeriveArgs \cup ClickArgs \cup CentreArgs

NextMath ==
    \/ CalcTau
    \/ CalcExpectedK
    \/ CalcDerivedK
    \/ CalcClick
    \/ CalcCentre

SpecMath == InitMath /\ [][NextMath]_vars

-----------------------------------------------------------------------------
(* Claims about the arithmetic (SpecMath) *)

\* the exact mu * dx^2 / alpha, dx = 1/(n-1), rounded once to a double
ExactTau(n, a, m) == DDiv(DNat(m * a[2]), DNat(a[1] * (n - 1) * (n - 1)))

\* tau / k <= s * dt_max in exact arithmetic
WithinStability(n, a, m, s, k) ==
    RLe(RDiv(derivedTau(a, RInt(m), gridDx(n)), RInt(k)), RMul(s, dtMax(a, gridDx(n))))

C2_TauFormulaAndMonotone ==
    (calc.op = "tau" /\ calc.done) =>
        /\ BCmp(DUlps(calc.tau, ExactTau(calc.n, calc.a, calc.mu)), BNat(MaxUlps)) <= 0
        /\ \A n2 \in GRID_SIZES :
              n2 > calc.n =>
                  DLess(tauFromMu(DNat(calc.mu), DDec(calc.a), dxFromN(n2)), calc.tau)

\* tau computed for the smaller grid, positive
C2_Witness ==
    /\ calc.op = "tau" /\ calc.done
    /\ calc.n = 64 /\ calc.a = <<20, 100>> /\ calc.mu = 10
    /\ DLess(DZero, calc.tau)

\* C3 as stated: the computed k is at least 1, also for mu = 0.
C3_SubstepCountPositive ==
    (calc.op = "k" /\ calc.done) => calc.k >= 1

\* C7: the reference margin S_REF asks for strictly more substeps than the
\* runtime margin S_RUN for every mu of MU_SET, while tau, computed without
\* any margin, is mu * dx^2 / alpha under either.
C7_SameTauMoreSubsteps ==
    /\ (calc.op = "k" /\ calc.done /\ calc.mu \in MU_SET) =>
          /\ calc.s = S_RUN => expectedK(DNat(calc.mu), DDec(S_REF)) > calc.k
          /\ calc.s = S_REF => calc.k > expectedK(DNat(calc.mu), DDec(S_RUN))
    /\ (calc.op = "derive" /\ calc.done) =>
          BCmp(DUlps(calc.tau, ExactTau(calc.n, calc.a, calc.mu)), BNat(MaxUlps)) <= 0

\* kRefExp for the default mu
C7_Witness ==
    /\ calc.op = "k" /\ calc.done
    /\ calc.mu = 10 /\ calc.s = S_REF /\ calc.k = 100

\* C10: the centre seed and every click seed have both coordinates in
\* [0, N), so the seed is accepted and changes exactly one cell.
C10_SeedInsideGrid ==
    (calc.op \in {"click", "centre"} /\ calc.done) =>
        /\ calc.x >= 0 /\ calc.x < calc.n
        /\ calc.y >= 0 /\ calc.y < calc.n
        /\ calc.ok
        /\ calc.changed = 1

\* a click at the last double below the rectangle's width lands in the last column
C10_Witness ==
    /\ calc.op = "click" /\ calc.done /\ calc.edge
    /\ calc.size = RectSize /\ calc.n = 128
    /\ calc.x = 127 /\ calc.y = 127 /\ calc.ok

-----------------------------------------------------------------------------
(* Claims about the component and the solver it drives (Spec) *)

\* a Step, a Reset handled while a solver exists
StepTaken == lastEvent' = "step" /\ events' = events + 1 /\ solverRef # 0
ResetTaken == lastEvent' = "reset" /\ events' = events + 1 /\ solverRef # 0

\* C4: a jump never raises the field's maximum (nor the displayed max(u))
\* and leaves every cell non-negative, whatever valid configuration and
\* non-negative field it starts from.
C4_JumpNeverRaisesMax ==
    [][StepTaken =>
          /\ FieldMax(solver'.field) <= FieldMax(solver.field)
          /\ maxVal' <= maxVal
          /\ \A c \in DOMAIN solver'.field : solver'.field[c] >= 0]_vars

\* two Steps in a row, the peak spread out but not gone
C4_Witness ==
    /\ prevEvent = "step" /\ lastEvent = "step" /\ solverRef # 0
    /\ maxVal > 0 /\ maxVal < FieldUnit
    /\ kUsed = 50

\* C5: handling a change of alpha or mu, effects included, leaves the field,
\* the grid size and the solver instance as they were.
C5_ConfigChangeKeepsField ==
    [][lastEvent' \in {"alpha", "mu"} =>
          /\ solver'.field = solver.field
          /\ solver'.n = solver.n
          /\ solverRef' = solverRef
          /\ N' = N
          /\ maxVal' = maxVal]_vars

\* alpha changed after a Step: the solver has the new alpha, the field is the stepped one
C5_Witness ==
    /\ lastEvent = "alpha" /\ prevEvent = "step" /\ Idle /\ solverRef # 0
    /\ alpha = <<5, 100>> /\ solver.alpha = alpha
    /\ maxVal > 0 /\ maxVal < FieldUnit

\* C6: Reset leaves the field of a fresh Solver of the same N seeded once at
\* the centre, and leaves alpha, mu, the margin and N unchanged.
C6_ResetEqualsFreshSeed ==
    [][ResetTaken =>
          /\ solver'.field =
                add_hotspot(NewSolver(N), CentreTable[N], CentreTable[N], 1).s.field
          /\ solver'.alpha = solver.alpha /\ solver'.mu = solver.mu
          /\ solver'.s = solver.s /\ solver'.n = solver.n
          /\ N' = N /\ alpha' = alpha /\ mu' = mu]_vars

\* Reset after a Step and a click
C6_Witness ==
    /\ lastEvent = "reset" /\ prevEvent = "click" /\ events >= 3 /\ solverRef # 0
    /\ maxVal = FieldUnit /\ kUsed = Null /\ computeMs = Null
    /\ solver.field = add_hotspot(NewSolver(N), CentreTable[N], CentreTable[N], 1).s.field

\* C8 as stated: once the solver exists and no effect is pending, its N,
\* alpha and mu are the UI's and tau (Rust) is mu * dx^2 / alpha of the UI's
\* values.
C8_SolverConfigFollowsUI ==
    (solverRef # 0 /\ pending = <<>>) =>
        /\ solver.n = N
        /\ solver.alpha = alpha
        /\ solver.mu = RInt(mu)
        /\ tauRust = derivedTau(alpha, RInt(mu), gridDx(N))

\* C9 as stated: k used and the compute time are both null, or both come
\* from the most recent Step on the current solver instance since the last
\* Reset.
C9_DisplayedStepIsCurrent ==
    \/ kUsed = Null /\ computeMs = Null
    \/ /\ lastStep.id = solverRef
       /\ kUsed = lastStep.k
       /\ computeMs = lastStep.ms

=============================================================================
